---- MODULE Spec2Model ----
(***************************************************************************)
(* Paper-trading engine of main.py: the sqlite tables (trades, balance,    *)
(* engine_state, strategy_state, trade_context) and the /webhook handler,  *)
(* one step per database statement or price fetch; and the learning bot of *)
(* bot.py: its two JSON files and its /webhook handler.                    *)
(*                                                                         *)
(* Units.  Money is kept in hundredths (cents), lots in hundredths of a    *)
(* lot, prices in whole points, so that                                    *)
(*     lot  = round(balance * BASE_RISK / (sl * POINT_VALUE), 2)           *)
(*     pnl  = (price - entry) * direction * lot * POINT_VALUE              *)
(* are integer computations.  Timestamps are clock ticks; every call of    *)
(* datetime.utcnow() reads a clock that has advanced by one tick, so the   *)
(* ISO strings the code stores are totally ordered like the ticks.         *)
(***************************************************************************)
EXTENDS Integers, Sequences, FiniteSets, Bags, TLC

VARIABLES
    trades,          \* table trades, in rowid order (id = index)
    balance,         \* table balance, in insertion order
    engine_state,    \* table engine_state as a record key -> value
    strategy_state,  \* table strategy_state: strategy -> row
    trade_context,   \* table trade_context: <<symbol, strategy, hour, weekday>> -> blocked_until
    now,             \* the wall clock, in ticks
    cycles,          \* accepted webhook requests so far
    loc,             \* the local variables of each webhook execution
    trades_file,     \* bot.py: data/trades.json, the bag of its entries
    weights_file,    \* bot.py: data/weights.json, strategy -> weight in tenths
    bot_now          \* bot.py: the clock of its host, in days

bot_vars == <<trades_file, weights_file, bot_now>>

vars == <<trades, balance, engine_state, strategy_state, trade_context, now, cycles, loc,
          bot_vars>>

----------------------------------------------------------------------------
(* Bounds of the model *)

MaxCycles == 3
MaxCyclesGap == 3
MaxCyclesCtx == 4
MaxCyclesConc == 3
MaxCyclesStatus == 2
MaxCyclesRestart == 1
MaxCyclesFail == 2
MaxCyclesD == 2
MaxBotTrades == 11
MaxBotDays == 8
NumStrategiesConc == 2
TicksPerHour == 1000

(* Program constants *)

Scale == 100
START_BALANCE == 1000
BASE_RISK == [num |-> 1, den |-> 100]
MAX_DAILY_LOSS == [num |-> 3, den |-> 100]
MAX_DRAWDOWN == [num |-> 10, den |-> 100]
BASE_TP == 20
BASE_SL == 10
POINT_VALUE == 1
BLOCK_HOURS == 6
SYMBOL == "XAUUSD"
STRATEGIES == <<"SMA200_TREND", "SMA200_PULLBACK", "BREAKOUT",
                "MEAN_REVERSION", "MOMENTUM", "REVERSAL">>
NULL == -1

EngineStatuses == {"LEARNING", "ACTIVE", "PAPER", "LIVE",
                   "PAUSED", "DAILY_LOCK", "DD_LOCK", "LOCKED"}

StrategyStatuses == {"ACTIVE", "TESTING", "DEGRADED", "DISABLED"}

(* Inputs *)

Workers == {1, 2}
PriceResults == {2000, 2020, NULL}
Bodies == SUBSET {"buy", "sell"}
Jumps == {0, TicksPerHour}

PriceResultsGap == {1834, 2000, 2020, NULL}

PriceResultsCtx == {2000, 2020}
BodiesCtx == {{}, {"buy"}}
JumpsCtx == {0, TicksPerHour, 7 * 24 * TicksPerHour}

PriceResultsStatus == {2000, 2020, NULL}

PriceResultsD == {100, 120, 124, 130}

PriceResultsConc == {2000, 2020}
BodiesConc == {{"buy"}}
JumpsConc == {0}
InitTime == (2 * 24 + 14) * TicksPerHour

----------------------------------------------------------------------------
(* Pure helpers *)

Hour(t) == (t \div TicksPerHour) % 24
Weekday(t) == (t \div (24 * TicksPerHour)) % 7
Day(t) == t \div (24 * TicksPerHour)

\* Python round() to an integer number of hundredths: nearest, ties to even.
RoundHalfEven(n, d) ==
    LET q == n \div d
        r == n % d
    IN  IF 2 * r < d THEN q
        ELSE IF 2 * r > d THEN q + 1
        ELSE IF q % 2 = 0 THEN q ELSE q + 1

Falsy(p) == p = NULL \/ p = 0

Direction(action) == IF action = "buy" THEN 1 ELSE -1

ParseAction(body) ==
    IF "buy" \in body THEN "buy" ELSE IF "sell" \in body THEN "sell" ELSE "None"

get_balance_oldest(bal) ==
    {bal[i].balance : i \in {k \in DOMAIN bal : \A m \in DOMAIN bal : bal[k].time <= bal[m].time}}

\* get_balance(): the balance of a sample with the greatest time; SQLite may
\* return any of them when several share it.
get_balance(bal) ==
    {bal[i].balance : i \in {k \in DOMAIN bal : \A m \in DOMAIN bal : bal[m].time <= bal[k].time}}

adaptive_levels(ss, strategy) ==
    [tp |-> BASE_TP * ss[strategy].tp_mult, sl |-> BASE_SL * ss[strategy].sl_mult]

ContextKey(symbol, strategy, t) == <<symbol, strategy, Hour(t), Weekday(t)>>

is_context_blocked_any_bucket(ctx, symbol, strategy, t) ==
    \E key \in DOMAIN ctx :
        key[1] = symbol /\ key[2] = strategy /\ ctx[key] # NULL /\ ctx[key] > t

\* is_context_blocked, lines 178-184
is_context_blocked(ctx, symbol, strategy, t) ==
    LET key == ContextKey(symbol, strategy, t)
    IN  /\ key \in DOMAIN ctx
        /\ ctx[key] # NULL
        /\ ctx[key] > t

LotSize(bal, sl) ==
    RoundHalfEven(bal * BASE_RISK.num, BASE_RISK.den * sl * POINT_VALUE)

PnlSwapped(price, entry, action, lot) ==
    (entry - price) * Direction(action) * lot * POINT_VALUE

\* close_trade, lines 226-227
Pnl(price, entry, action, lot) ==
    (price - entry) * Direction(action) * lot * POINT_VALUE

ShouldCloseStrict(diff, tp, sl) == diff > tp \/ diff < -sl

\* manage_open_trades, line 258
ShouldClose(diff, tp, sl) == diff >= tp \/ diff <= -sl

OpenRows(tr, symbol) ==
    LET open == {i \in DOMAIN tr : tr[i].status = "OPEN" /\ tr[i].symbol = symbol}
        F[k \in 0..Len(tr)] ==
            IF k = 0 THEN <<>>
            ELSE IF k \in open
                 THEN Append(F[k - 1], [id |-> tr[k].id, symbol |-> tr[k].symbol,
                                        strategy |-> tr[k].strategy, action |-> tr[k].action,
                                        entry_price |-> tr[k].entry_price, lot |-> tr[k].lot])
                 ELSE F[k - 1]
    IN  F[Len(tr)]

\* The locals of one request.  mprice is the price local to
\* manage_open_trades; nclosed and nopened count the trades the request has
\* closed and inserted.  They are kept until the request returns so that
\* properties can refer to them.
IdleLoc(result) ==
    [pc |-> "idle", action |-> "None", price |-> NULL, rows |-> <<>>,
     pnl |-> 0, bal |-> 0, idx |-> 0, lot |-> 0, result |-> result,
     mprice |-> NULL, nclosed |-> 0, nopened |-> 0]

----------------------------------------------------------------------------
(* The weights of bot.py are Python floats: IEEE 754 doubles, 53 significant *)
(* bits, round to nearest, ties to even.  Every double the weights can take  *)
(* is a whole number of 2^-56.  The record [k, e] is the double              *)
(*     k/10 + e / (10 * 2^56):                                               *)
(* k is the weight in tenths as it is printed to one digit, e is what the    *)
(* binary representation adds to it.  With x = k * 2^56 + e, the doubles of  *)
(* a binade whose spacing is U * 2^-56 are the x that are multiples of 10*U. *)

FracBits == 56

RECURSIVE Pow2Mod(_, _)
Pow2Mod(n, m) == IF n = 0 THEN 1 % m ELSE (2 * Pow2Mod(n - 1, m)) % m

\* 2^56 modulo ten times each spacing and its double
UnitMod == [m \in {10, 20, 40, 80, 160, 320, 640} |-> Pow2Mod(FracBits, m)]

\* spacing of the doubles around k/10 + e, in units of 2^-56: 2^-51 from 2.0,
\* 2^-52 from 1.0, 2^-53 from 0.5, 2^-54 from 0.25, 2^-55 from 0.125 and
\* 2^-56 from 0.0625 down to the exact differences near zero
Ulp(k, e) ==
    IF k > 20 \/ (k = 20 /\ e >= 0) THEN 32
    ELSE IF k > 10 \/ (k = 10 /\ e >= 0) THEN 16
    ELSE IF k > 5 \/ (k = 5 /\ e >= 0) THEN 8
    ELSE IF k >= 3 THEN 4
    ELSE IF k >= 2 THEN 2
    ELSE 1

\* the double nearest to the real number k/10 + e
Round(k, e) ==
    LET m == 10 * Ulp(k, e)
        r == (k * UnitMod[m] + e) % m
        down == e - r
        up == down + m
        even(x) == (k * UnitMod[2 * m] + x) % (2 * m) = 0
    IN  [k |-> k,
         e |-> IF r = 0 THEN e
               ELSE IF 2 * r < m THEN down
               ELSE IF 2 * r > m THEN up
               ELSE IF even(down) THEN down ELSE up]

\* a literal written in tenths: Float(3) is 0.3, Float(20) is 2.0
Literals == [k \in {1, 3, 5, 10, 20} |-> Round(k, 0)]
Float(k) == Literals[k]

\* a + b, a - b and a < b of two floats
fl_add(a, b) == Round(a.k + b.k, a.e + b.e)
fl_sub(a, b) == Round(a.k - b.k, a.e - b.e)
Less(a, b) == a.k < b.k \/ (a.k = b.k /\ a.e < b.e)

----------------------------------------------------------------------------
(* bot.py at start-up: lines 29-42 write the two files when they are missing *)

BotStrategies == {"SMC", "JAPAN", "SCALP", "PSND", "TREND", "MEAN"}

InitFiles ==
    /\ trades_file = EmptyBag
    /\ weights_file = [s \in BotStrategies |-> Float(10)]
    /\ bot_now = 0

----------------------------------------------------------------------------
(* init_db on an empty database *)

InitTables ==
    /\ trades = <<>>
    /\ balance = <<[time |-> InitTime, balance |-> START_BALANCE * Scale]>>
    /\ strategy_state = [s \in {STRATEGIES[i] : i \in DOMAIN STRATEGIES} |->
                            [tp_mult |-> 1, sl_mult |-> 1, status |-> "ACTIVE"]]
    /\ trade_context = <<>>
    /\ now = InitTime
    /\ cycles = 0
    /\ loc = [w \in Workers |-> IdleLoc([status |-> "none"])]
    /\ InitFiles

Init ==
    /\ InitTables
    /\ engine_state = [engine_status |-> "LEARNING",
                       peak_balance |-> START_BALANCE * Scale,
                       daily_date |-> Day(InitTime),
                       daily_pnl |-> 0]

----------------------------------------------------------------------------
(* /webhook, statement by statement *)

\* lines 265-272: token check and body parse; an accepted request arrives
\* `jump` ticks after the previous event.
webhook(w, tokenOk, body, jump, maxCycles) ==
    /\ loc[w].pc = "idle"
    /\ IF ~tokenOk
       THEN /\ loc' = [loc EXCEPT ![w] = IdleLoc([status |-> "403"])]
            /\ UNCHANGED <<now, cycles>>
       ELSE IF ParseAction(body) = "None"
       THEN /\ loc' = [loc EXCEPT ![w] = IdleLoc([status |-> "ignored"])]
            /\ UNCHANGED <<now, cycles>>
       ELSE /\ cycles < maxCycles
            /\ cycles' = cycles + 1
            /\ now' = now + jump
            /\ loc' = [loc EXCEPT ![w] = [IdleLoc([status |-> "none"]) EXCEPT
                                             !.pc = "m_price",
                                             !.action = ParseAction(body)]]
    /\ UNCHANGED <<trades, balance, engine_state, strategy_state, trade_context, bot_vars>>

\* manage_open_trades, line 243-245: price = get_price(symbol)
manage_get_price(w, p) ==
    /\ loc[w].pc = "m_price"
    /\ loc' = [loc EXCEPT ![w].price = p, ![w].mprice = p,
                          ![w].pc = IF Falsy(p) THEN "o_price" ELSE "m_select"]
    /\ UNCHANGED <<trades, balance, engine_state, strategy_state, trade_context, now, cycles,
                 bot_vars>>

\* lines 247-250: the OPEN rows of the symbol
manage_select(w) ==
    /\ loc[w].pc = "m_select"
    /\ loc' = [loc EXCEPT ![w].rows = OpenRows(trades, SYMBOL), ![w].pc = "m_loop"]
    /\ UNCHANGED <<trades, balance, engine_state, strategy_state, trade_context, now, cycles,
                 bot_vars>>

\* lines 252-258: the next row, its levels and the exit test
manage_row(w) ==
    /\ loc[w].pc = "m_loop"
    /\ IF loc[w].rows = <<>>
       THEN loc' = [loc EXCEPT ![w].pc = "o_price"]
       ELSE LET r == Head(loc[w].rows)
                lv == adaptive_levels(strategy_state, r.strategy)
                diff == (loc[w].price - r.entry_price) * Direction(r.action)
            IN  IF ShouldClose(diff, lv.tp, lv.sl)
                THEN loc' = [loc EXCEPT ![w].pc = "c_update"]
                ELSE loc' = [loc EXCEPT ![w].rows = Tail(@)]
    /\ UNCHANGED <<trades, balance, engine_state, strategy_state, trade_context, now, cycles,
                 bot_vars>>

\* close_trade, lines 225-235: pnl and the UPDATE of the trade row
close_trade(w) ==
    /\ loc[w].pc = "c_update"
    /\ LET r == Head(loc[w].rows)
           pnl == Pnl(loc[w].price, r.entry_price, r.action, r.lot)
       IN  /\ now' = now + 1
           /\ trades' = [trades EXCEPT ![r.id] =
                            [@ EXCEPT !.status = "CLOSED", !.exit_price = loc[w].price,
                                      !.pnl = pnl, !.time_close = now']]
           /\ loc' = [loc EXCEPT ![w].pnl = pnl, ![w].nclosed = @ + 1, ![w].pc = "b_read"]
    /\ UNCHANGED <<balance, engine_state, strategy_state, trade_context, cycles, bot_vars>>

\* update_balance, line 151: bal = get_balance() + delta
update_balance_read(w) ==
    /\ loc[w].pc = "b_read"
    /\ \E b \in get_balance(balance) :
          loc' = [loc EXCEPT ![w].bal = b + loc[w].pnl, ![w].pc = "b_insert"]
    /\ UNCHANGED <<trades, balance, engine_state, strategy_state, trade_context, now, cycles,
                 bot_vars>>

\* update_balance, lines 152-155: INSERT INTO balance
update_balance_insert(w) ==
    /\ loc[w].pc = "b_insert"
    /\ now' = now + 1
    /\ balance' = Append(balance, [time |-> now', balance |-> loc[w].bal])
    /\ loc' = [loc EXCEPT ![w].pc = "p_read"]
    /\ UNCHANGED <<trades, engine_state, strategy_state, trade_context, cycles, bot_vars>>

PeakExceededAlways(bal, peak) == TRUE

\* line 158: if bal > peak
PeakExceeded(bal, peak) == bal > peak

AfterBalance(w) == IF loc[w].pnl <= 0 THEN "penalize" ELSE "c_done"

\* update_balance, lines 157-158: peak = get_state("peak_balance"); bal > peak
update_balance_peak_read(w) ==
    /\ loc[w].pc = "p_read"
    /\ loc' = [loc EXCEPT ![w].pc = IF PeakExceeded(loc[w].bal, engine_state.peak_balance)
                                    THEN "p_write" ELSE AfterBalance(w)]
    /\ UNCHANGED <<trades, balance, engine_state, strategy_state, trade_context, now, cycles,
                 bot_vars>>

\* update_balance, line 159: set_state("peak_balance", bal)
update_balance_peak_write(w) ==
    /\ loc[w].pc = "p_write"
    /\ engine_state' = [engine_state EXCEPT !.peak_balance = loc[w].bal]
    /\ loc' = [loc EXCEPT ![w].pc = AfterBalance(w)]
    /\ UNCHANGED <<trades, balance, strategy_state, trade_context, now, cycles, bot_vars>>

\* close_trade, lines 238-239 and penalize_context, lines 186-194
penalize_context(w) ==
    /\ loc[w].pc = "penalize"
    /\ LET r == Head(loc[w].rows)
       IN  /\ now' = now + 1
           /\ trade_context' = (ContextKey(r.symbol, r.strategy, now')
                                   :> (now' + BLOCK_HOURS * TicksPerHour)) @@ trade_context
    /\ loc' = [loc EXCEPT ![w].pc = "c_done"]
    /\ UNCHANGED <<trades, balance, engine_state, strategy_state, cycles, bot_vars>>

\* close_trade returns: back to the loop of manage_open_trades
close_return(w) ==
    /\ loc[w].pc = "c_done"
    /\ loc' = [loc EXCEPT ![w].rows = Tail(@), ![w].pnl = 0, ![w].bal = 0, ![w].pc = "m_loop"]
    /\ UNCHANGED <<trades, balance, engine_state, strategy_state, trade_context, now, cycles,
                 bot_vars>>

\* webhook, lines 276-279: the second price fetch
open_get_price(w, p) ==
    /\ loc[w].pc = "o_price"
    /\ loc' = [loc EXCEPT ![w].price = p, ![w].rows = <<>>, ![w].idx = 1,
                          ![w].pc = IF Falsy(p) THEN "ret" ELSE "o_guard"]
    /\ UNCHANGED <<trades, balance, engine_state, strategy_state, trade_context, now, cycles,
                 bot_vars>>

NextStrategy(w, strats) ==
    IF loc[w].idx < Len(strats)
    THEN [loc EXCEPT ![w].idx = @ + 1, ![w].lot = 0, ![w].pc = "o_guard"]
    ELSE [loc EXCEPT ![w].idx = 0, ![w].lot = 0, ![w].pc = "ret"]

Inserted(l, w) == [l EXCEPT ![w].nopened = @ + 1]

EngineLocked(status) == status = "LOCKED"

\* open_trade, lines 207-213: the guards, the levels and the lot
open_trade_guard(w, strats) ==
    /\ loc[w].pc = "o_guard"
    /\ now' = now + 1
    /\ LET strat == strats[loc[w].idx]
       IN  IF \/ EngineLocked(engine_state.engine_status)
              \/ is_context_blocked(trade_context, SYMBOL, strat, now')
           THEN loc' = NextStrategy(w, strats)
           ELSE \E b \in get_balance(balance) :
                   loc' = [loc EXCEPT
                              ![w].lot = LotSize(b, adaptive_levels(strategy_state, strat).sl),
                              ![w].pc = "o_insert"]
    /\ UNCHANGED <<trades, balance, engine_state, strategy_state, trade_context, cycles, bot_vars>>

\* open_trade, lines 215-222: INSERT INTO trades
open_trade_insert(w, strats) ==
    /\ loc[w].pc = "o_insert"
    /\ now' = now + 1
    /\ trades' = Append(trades,
                    [id |-> Len(trades) + 1, symbol |-> SYMBOL,
                     strategy |-> strats[loc[w].idx], action |-> loc[w].action,
                     entry_price |-> loc[w].price, exit_price |-> NULL,
                     lot |-> loc[w].lot, status |-> "OPEN", pnl |-> 0,
                     time_open |-> now', time_close |-> NULL])
    /\ loc' = Inserted(NextStrategy(w, strats), w)
    /\ UNCHANGED <<balance, engine_state, strategy_state, trade_context, cycles, bot_vars>>

\* webhook, line 283
webhook_return(w) ==
    /\ loc[w].pc = "ret"
    /\ loc' = [loc EXCEPT ![w] = IdleLoc([status |-> "ok",
                                          engine |-> engine_state.engine_status])]
    /\ UNCHANGED <<trades, balance, engine_state, strategy_state, trade_context, now, cycles,
                 bot_vars>>

----------------------------------------------------------------------------
Step(w, T, P, B, J, maxCycles, strats) ==
    \/ \E tokenOk \in T, body \in B, jump \in J :
          webhook(w, tokenOk, body, jump, maxCycles)
    \/ \E p \in P : manage_get_price(w, p)
    \/ manage_select(w)
    \/ manage_row(w)
    \/ close_trade(w)
    \/ update_balance_read(w)
    \/ update_balance_insert(w)
    \/ update_balance_peak_read(w)
    \/ update_balance_peak_write(w)
    \/ penalize_context(w)
    \/ close_return(w)
    \/ \E p \in P : open_get_price(w, p)
    \/ open_trade_guard(w, strats)
    \/ open_trade_insert(w, strats)
    \/ webhook_return(w)

\* One request at a time: the handler has no await after reading the body,
\* so one event loop runs the requests of one process one after the other.
Next == Step(1, BOOLEAN, PriceResults, Bodies, Jumps, MaxCycles, STRATEGIES)

Spec == Init /\ [][Next]_vars

\* The same with a price that gaps from 2000 or 2020 down to 1834.
NextGap == Step(1, BOOLEAN, PriceResultsGap, Bodies, Jumps, MaxCyclesGap, STRATEGIES)

SpecGap == Init /\ [][NextGap]_vars

\* The context-block scenario: buy signals only, both price fetches answer
\* 2000 or 2020, and requests arrive in the same hour, an hour later or a
\* week later.
NextCtx == Step(1, BOOLEAN, PriceResultsCtx, BodiesCtx, JumpsCtx, MaxCyclesCtx, STRATEGIES)

SpecCtx == Init /\ [][NextCtx]_vars

\* Two worker processes on the same database file: the statements of two
\* requests interleave freely.  Every request carries the right token and a
\* buy signal, and iterates over the first NumStrategiesConc strategies.
NextConc ==
    \E w \in Workers :
        Step(w, {TRUE}, PriceResultsConc, BodiesConc, JumpsConc, MaxCyclesConc,
             SubSeq(STRATEGIES, 1, NumStrategiesConc))

SpecConc == Init /\ [][NextConc]_vars

\* A database file whose engine_status was set before this process started:
\* init_db keeps an existing engine_state row (INSERT OR IGNORE).
InitStatus ==
    /\ InitTables
    /\ \E st \in EngineStatuses :
          engine_state = [engine_status |-> st,
                          peak_balance |-> START_BALANCE * Scale,
                          daily_date |-> Day(InitTime),
                          daily_pnl |-> 0]

NextStatus == Step(1, BOOLEAN, PriceResultsStatus, Bodies, Jumps, MaxCyclesStatus, STRATEGIES)

SpecStatus == InitStatus /\ [][NextStatus]_vars

\* The process restarts on the database file an earlier run left: the six
\* trades one request opened (or none), still OPEN, an engine_status and a
\* status of the first strategy set in the meantime.  init_db creates no
\* table that exists and keeps the rows of engine_state and strategy_state.
LeftOpen(action, entry) ==
    [i \in DOMAIN STRATEGIES |->
        [id |-> i, symbol |-> SYMBOL, strategy |-> STRATEGIES[i], action |-> action,
         entry_price |-> entry, exit_price |-> NULL,
         lot |-> LotSize(START_BALANCE * Scale, BASE_SL), status |-> "OPEN", pnl |-> 0,
         time_open |-> InitTime + 2 * i, time_close |-> NULL]]

InitRestart ==
    /\ trades \in {<<>>} \cup {LeftOpen(a, e) : a \in {"buy", "sell"}, e \in {2000, 2020}}
    /\ balance = <<[time |-> InitTime, balance |-> START_BALANCE * Scale]>>
    /\ \E st \in StrategyStatuses :
          strategy_state = [s \in {STRATEGIES[i] : i \in DOMAIN STRATEGIES} |->
                               [tp_mult |-> 1, sl_mult |-> 1,
                                status |-> IF s = STRATEGIES[1] THEN st ELSE "ACTIVE"]]
    /\ trade_context = <<>>
    /\ now = InitTime + 2 * Len(STRATEGIES)
    /\ cycles = 0
    /\ loc = [w \in Workers |-> IdleLoc([status |-> "none"])]
    /\ InitFiles
    /\ \E st \in EngineStatuses :
          engine_state = [engine_status |-> st,
                          peak_balance |-> START_BALANCE * Scale,
                          daily_date |-> Day(InitTime),
                          daily_pnl |-> 0]

NextRestart == Step(1, BOOLEAN, PriceResults, Bodies, Jumps, MaxCyclesRestart, STRATEGIES)

SpecRestart == InitRestart /\ [][NextRestart]_vars

\* Buy signals while the price moves between 100, 120, 124 and 130.
NextD == Step(1, {TRUE}, PriceResultsD, BodiesConc, JumpsConc, MaxCyclesD, STRATEGIES)

SpecD == Init /\ [][NextD]_vars

\* A write statement raises (sqlite3.OperationalError: the database is
\* locked, the disk is full).  Every statement commits on its own and
\* nothing catches the exception: the request ends with a 500 response and
\* the statements that were committed before stay.
WriteStatements == {"c_update", "b_insert", "p_write", "penalize", "o_insert"}

persistence_failure(w) ==
    /\ loc[w].pc \in WriteStatements
    /\ loc' = [loc EXCEPT ![w] = IdleLoc([status |-> "500"])]
    /\ UNCHANGED <<trades, balance, engine_state, strategy_state, trade_context, now, cycles,
                 bot_vars>>

NextFail ==
    \/ Step(1, BOOLEAN, PriceResults, Bodies, Jumps, MaxCyclesFail, STRATEGIES)
    \/ persistence_failure(1)

SpecFail == Init /\ [][NextFail]_vars

----------------------------------------------------------------------------
(* bot.py.  Weights are floats, prices whole points; trades.json is the    *)
(* bag of its entries: no reader depends on their order.  The handler has  *)
(* no await after reading the body, so one request is one step.            *)

\* The signals TradingView posts: a long that wins 10, a long whose tp lies
\* below the entry and loses 10, and a short that wins 10.  Requests arrive
\* at once or eight days after the previous one, and Telegram answers.
BotSignals ==
    {[strategy |-> "SMC", side |-> "LONG", price |-> 100, sl |-> 90, tp |-> 110],
     [strategy |-> "SMC", side |-> "LONG", price |-> 100, sl |-> 90, tp |-> 95],
     [strategy |-> "JAPAN", side |-> "SHORT", price |-> 100, sl |-> 110, tp |-> 90]}

BotJumps == {0, 8}
BotTelegram == {TRUE}

\* simulate_trade, lines 86-90
simulate_trade(entry, sl, tp, side) ==
    IF side = "LONG"
    THEN IF tp > entry THEN tp - entry ELSE sl - entry
    ELSE IF tp < entry THEN entry - tp ELSE entry - sl

ClampAbove(x) == IF Less(Float(20), x) THEN Float(20) ELSE x

\* line 79: max(0.3, min(w, 2.0))
Clamp(x) ==
    LET min == IF Less(Float(20), x) THEN Float(20) ELSE x
    IN  IF Less(Float(3), min) THEN min ELSE Float(3)

RECURSIVE SumPnlOf(_, _)
SumPnlOf(S, b) ==
    IF S = {} THEN 0
    ELSE LET e == CHOOSE x \in S : TRUE
         IN  e.pnl * CopiesIn(e, b) + SumPnlOf(S \ {e}, b)

\* update_weights, lines 61-81: the weights it saves, or the weights as they
\* were when weights[strat] raises KeyError before save_json
update_weights(tr, weights, t) ==
    LET recent == {e \in BagToSet(tr) : e.time > t - 7}
        stats == {e.strategy : e \in recent}
        sum(strat) == SumPnlOf({e \in recent : e.strategy = strat}, tr)
    IN  IF \E strat \in stats : strat \notin DOMAIN weights
        THEN weights
        ELSE [strat \in DOMAIN weights |->
                 IF strat \in stats
                 THEN Clamp(IF sum(strat) > 0 THEN fl_add(weights[strat], Float(1))
                                             ELSE fl_sub(weights[strat], Float(1)))
                 ELSE weights[strat]]

main_vars == <<trades, balance, engine_state, strategy_state, trade_context, now, cycles, loc>>

\* webhook, lines 99-153.  jsonOk: the body parses and carries the numbers;
\* telegramOk: requests.post of send_telegram does not raise.
bot_webhook(jsonOk, sig, telegramOk, jump) ==
    /\ bot_now + jump <= MaxBotDays
    /\ bot_now' = bot_now + jump
    /\ LET weight == IF sig.strategy \in DOMAIN weights_file
                      THEN weights_file[sig.strategy] ELSE Float(10)
           trade == [strategy |-> sig.strategy, side |-> sig.side, entry |-> sig.price,
                     sl |-> sig.sl, tp |-> sig.tp,
                     pnl |-> simulate_trade(sig.price, sig.sl, sig.tp, sig.side),
                     time |-> bot_now']
       IN  IF ~jsonOk \/ Less(weight, Float(5))
           THEN UNCHANGED <<trades_file, weights_file>>
           ELSE /\ BagCardinality(trades_file) < MaxBotTrades
                /\ trades_file' = trades_file (+) SetToBag({trade})
                /\ weights_file' = IF telegramOk
                                   THEN update_weights(trades_file', weights_file, bot_now')
                                   ELSE weights_file
    /\ UNCHANGED main_vars

NextBot ==
    \E sig \in BotSignals, jump \in BotJumps :
        \/ bot_webhook(FALSE, sig, TRUE, jump)
        \/ \E telegramOk \in BotTelegram : bot_webhook(TRUE, sig, telegramOk, jump)

SpecBot == Init /\ [][NextBot]_vars

----------------------------------------------------------------------------
(* Derived quantities used by the properties *)

Closed == {i \in DOMAIN trades : trades[i].status = "CLOSED"}

SumPnl ==
    LET F[k \in 0..Len(trades)] ==
            IF k = 0 THEN 0
            ELSE F[k - 1] + (IF trades[k].status = "CLOSED" THEN trades[k].pnl ELSE 0)
    IN  F[Len(trades)]

\* w has marked a trade CLOSED and not yet appended its balance sample
LedgerPending(w) == loc[w].pc \in {"b_read", "b_insert"}

\* w has appended a balance sample and not yet finished update_balance
PeakPending(w) == loc[w].pc \in {"p_read", "p_write"}

----------------------------------------------------------------------------
\* C1 - Balance conservation: whenever no close is half-way between marking
\* the trade CLOSED and appending its sample, get_balance() returns
\* START_BALANCE plus the sum of the pnl of all closed trades.
BalanceConservation ==
    (\A w \in Workers : ~LedgerPending(w)) =>
        get_balance(balance) = {START_BALANCE * Scale + SumPnl}

\* C1 witness: three cycles are over, trades were closed with a profit and
\* with a loss.
BalanceConservationWitness ==
    /\ loc[1].pc = "idle"
    /\ \E i, j \in Closed : trades[i].pnl > 0 /\ trades[j].pnl < 0

\* C2 - Peak monotonicity: no step decreases peak_balance, and once
\* update_balance has returned peak_balance >= get_balance().
PeakCoversBalance ==
    (\A w \in Workers : ~PeakPending(w)) =>
        \A b \in get_balance(balance) : engine_state.peak_balance >= b

PeakMonotonicity ==
    /\ PeakCoversBalance
    /\ [][/\ engine_state'.peak_balance >= engine_state.peak_balance
          /\ PeakCoversBalance']_vars

\* C2 witness: the peak was raised above the starting balance and the
\* balance has since fallen below it.
PeakMonotonicityWitness ==
    /\ loc[1].pc = "idle"
    /\ engine_state.peak_balance > START_BALANCE * Scale
    /\ \E b \in get_balance(balance) : b < engine_state.peak_balance


\* C3 - Terminal state: a CLOSED trade never changes again, and every
\* balance sample after the first belongs to a trade that was closed once
\* (a second close of the same id would rewrite the row and append a second
\* sample).
ClosedFrozen ==
    \A i \in DOMAIN trades : trades[i].status = "CLOSED" => trades'[i] = trades[i]

LedgerOncePerClose == Len(balance) <= 1 + Cardinality(Closed)

TerminalState ==
    /\ LedgerOncePerClose
    /\ [][ClosedFrozen /\ LedgerOncePerClose']_vars

\* C4 - Serialized ledger updates: when both executions have returned, the
\* balance is START_BALANCE plus the pnl of the distinct closed trades, and
\* the ledger holds one sample per closed trade.
SerializedLedger ==
    (\A w \in Workers : loc[w].pc = "idle") =>
        /\ get_balance(balance) = {START_BALANCE * Scale + SumPnl}
        /\ Len(balance) = 1 + Cardinality(Closed)

\* C5 - Drawdown lock: once update_balance has returned with
\* (peak_balance - balance) / peak_balance >= MAX_DRAWDOWN, engine_status
\* is LOCKED or DD_LOCK.
DrawdownReached ==
    \E b \in get_balance(balance) :
        (engine_state.peak_balance - b) * MAX_DRAWDOWN.den
            >= MAX_DRAWDOWN.num * engine_state.peak_balance

DrawdownLock ==
    ((\A w \in Workers : ~LedgerPending(w) /\ ~PeakPending(w)) /\ DrawdownReached) =>
        engine_state.engine_status \in {"LOCKED", "DD_LOCK"}

\* C6 - Daily-loss lock: at the point of a webhook cycle between managing
\* the open trades and opening new ones, daily_pnl <= -balance *
\* MAX_DAILY_LOSS implies engine_status = DAILY_LOCK.
DailyLossReached ==
    \E b \in get_balance(balance) :
        engine_state.daily_pnl * MAX_DAILY_LOSS.den <= -(b * MAX_DAILY_LOSS.num)

DailyLossLock ==
    \A w \in Workers :
        (loc[w].pc = "o_price" /\ DailyLossReached) =>
            engine_state.engine_status = "DAILY_LOCK"

\* C7 - Lock guard on opening: while engine_status is PAUSED, DAILY_LOCK,
\* DD_LOCK or LOCKED no step inserts a trade row.
LockGuard ==
    [][engine_state.engine_status \in {"PAUSED", "DAILY_LOCK", "DD_LOCK", "LOCKED"}
          => Len(trades') = Len(trades)]_vars

\* C9 - Position size is never zero or negative: every inserted trade has
\* lot > 0.
PositiveLot == \A i \in DOMAIN trades : trades[i].lot > 0

\* C10 - Scenario A: at balance 1000 the lot is sized 1.00; closing a buy
\* with entry 2000 and lot 1.00 at price 2020 records pnl 20.00, and when
\* the balance was 1000 the new balance is 1020.
ScenarioAStep(w) ==
    LET r == Head(loc[w].rows)
        isA == /\ r.action = "buy" /\ r.entry_price = 2000
               /\ r.lot = Scale /\ loc[w].price = 2020
    IN  /\ (/\ loc[w].pc = "o_guard" /\ loc'[w].pc = "o_insert"
            /\ get_balance(balance) = {1000 * Scale})
               => loc'[w].lot = Scale
        /\ (loc[w].pc = "o_insert" /\ loc'[w].pc # "o_insert")
               => /\ Len(trades') = Len(trades) + 1
                  /\ trades'[Len(trades')].lot = loc[w].lot
                  /\ trades'[Len(trades')].entry_price = loc[w].price
        /\ (loc[w].pc = "m_loop" /\ loc[w].rows # <<>> /\ isA)
               => loc'[w].pc = "c_update"
        /\ (loc[w].pc = "c_update" /\ loc'[w].pc = "b_read" /\ isA)
               => /\ trades'[r.id].status = "CLOSED"
                  /\ trades'[r.id].exit_price = 2020
                  /\ trades'[r.id].pnl = 20 * Scale
        /\ (/\ loc[w].pc = "b_insert" /\ loc'[w].pc = "p_read" /\ isA
            /\ get_balance(balance) = {1000 * Scale})
               => get_balance(balance') = {1020 * Scale}

ScenarioA == [][\A w \in Workers : ScenarioAStep(w)]_vars

\* C10 witness: the first trade is a buy at 2000 with lot 1.00, closed at
\* 2020 with pnl 20.00, and the sample appended for it is 1020.00.
ScenarioAWitness ==
    /\ Len(trades) >= 1 /\ Len(balance) >= 2
    /\ trades[1].action = "buy" /\ trades[1].entry_price = 2000
    /\ trades[1].lot = Scale /\ trades[1].status = "CLOSED"
    /\ trades[1].exit_price = 2020 /\ trades[1].pnl = 20 * Scale
    /\ balance[2].balance = 1020 * Scale

\* C8 - Context block scenario: after three consecutive losing closes of a
\* (symbol, strategy) pair in one hour bucket, trade_context holds
\* blocked_until = (time of the penalty) + 6h for that bucket; every losing
\* close writes that row; and open_trade inserts a trade for the pair
\* exactly when no row of the current bucket has blocked_until strictly
\* after the current time.
ClosedOf(s) == {i \in Closed : trades[i].strategy = s}

LastThree(s) ==
    {i \in ClosedOf(s) :
        Cardinality({j \in ClosedOf(s) : trades[j].time_close > trades[i].time_close}) < 3}

LastCloseTime(s) ==
    CHOOSE t \in {trades[i].time_close : i \in LastThree(s)} :
        \A i \in LastThree(s) : trades[i].time_close <= t

ThreeLosses(s) ==
    /\ Cardinality(LastThree(s)) = 3
    /\ \A i \in LastThree(s) : trades[i].pnl < 0
    /\ \A i, j \in LastThree(s) :
          trades[i].time_close \div TicksPerHour = trades[j].time_close \div TicksPerHour

ClosePending(s) ==
    \E w \in Workers :
        /\ loc[w].pc \in {"b_read", "b_insert", "p_read", "p_write", "penalize"}
        /\ Head(loc[w].rows).strategy = s

BlockWindow == BLOCK_HOURS * TicksPerHour

ThreeLossesBlocked ==
    \A s \in DOMAIN strategy_state :
        (ThreeLosses(s) /\ ~ClosePending(s)) =>
            LET key == <<SYMBOL, s, Hour(LastCloseTime(s)), Weekday(LastCloseTime(s))>>
            IN  /\ key \in DOMAIN trade_context
                /\ trade_context[key] - BlockWindow > LastCloseTime(s)
                /\ Hour(trade_context[key] - BlockWindow) = key[3]
                /\ Weekday(trade_context[key] - BlockWindow) = key[4]

PenalizeSets(w) ==
    (loc[w].pc = "penalize" /\ loc'[w].pc = "c_done") =>
        LET r == Head(loc[w].rows)
            key == <<r.symbol, r.strategy, Hour(now'), Weekday(now')>>
        IN  /\ key \in DOMAIN trade_context'
            /\ trade_context'[key] = now' + BlockWindow

OpenRespectsBlock(w) ==
    (loc[w].pc = "o_guard" /\ loc'[w] # loc[w]) =>
        LET s == STRATEGIES[loc[w].idx]
            key == <<SYMBOL, s, Hour(now'), Weekday(now')>>
            blocked == key \in DOMAIN trade_context /\ trade_context[key] > now'
        IN  (loc'[w].pc = "o_insert") <=>
                (~blocked /\ engine_state.engine_status # "LOCKED")

OpenInserts(w) ==
    (loc[w].pc = "o_insert" /\ loc'[w] # loc[w]) =>
        /\ Len(trades') = Len(trades) + 1
        /\ trades'[Len(trades')].strategy = STRATEGIES[loc[w].idx]
        /\ trades'[Len(trades')].status = "OPEN"

ContextBlockScenario ==
    /\ ThreeLossesBlocked
    /\ [][/\ ThreeLossesBlocked'
          /\ \A w \in Workers : PenalizeSets(w) /\ OpenRespectsBlock(w) /\ OpenInserts(w)]_vars

\* C8 witness: a pair has three consecutive losing closes in one bucket, the
\* same request has since run open_trade for every strategy inside the
\* window, and no trade of the pair was opened after those closes.
ContextBlockWitness ==
    /\ loc[1].pc = "ret"
    /\ \E s \in DOMAIN strategy_state :
          /\ ThreeLosses(s)
          /\ Hour(now) = Hour(LastCloseTime(s))
          /\ now < trade_context[<<SYMBOL, s, Hour(now), Weekday(now)>>]
          /\ \A i \in DOMAIN trades :
                trades[i].strategy = s => trades[i].time_open < LastCloseTime(s)

\* C11 - Trade record invariant: exit_price and time_close are null exactly
\* while the trade is OPEN, pnl is 0 while it is OPEN, and no step changes
\* a field of a trade that is CLOSED.
TradeRecordShape ==
    \A i \in DOMAIN trades :
        /\ (trades[i].exit_price = NULL) <=> (trades[i].status = "OPEN")
        /\ (trades[i].time_close = NULL) <=> (trades[i].status = "OPEN")
        /\ trades[i].status = "OPEN" => trades[i].pnl = 0
        /\ trades[i].status \in {"OPEN", "CLOSED"}

TradeRecordInvariant ==
    /\ TradeRecordShape
    /\ [][TradeRecordShape' /\ ClosedFrozen]_vars

\* C12 - Rejected opens have no side effects: when the context block of the
\* current bucket is active or the strategy is DISABLED, open_trade returns
\* without inserting a trade and leaves every table unchanged; no trade of a
\* DISABLED strategy is ever inserted.
OpenRejected(w) ==
    LET strat == STRATEGIES[loc[w].idx]
    IN  \/ is_context_blocked(trade_context, SYMBOL, strat, now')
        \/ strategy_state[strat].status = "DISABLED"

GuardRejects(w) ==
    (loc[w].pc = "o_guard" /\ loc'[w] # loc[w] /\ OpenRejected(w)) =>
        /\ loc'[w].pc # "o_insert"
        /\ UNCHANGED <<trades, balance, engine_state, strategy_state, trade_context>>

NoDisabledInsert ==
    Len(trades') > Len(trades) =>
        strategy_state[trades'[Len(trades')].strategy].status # "DISABLED"

RejectedOpensNoSideEffects ==
    [][NoDisabledInsert /\ \A w \in Workers : GuardRejects(w)]_vars

\* C13 - No market data: when a request is about to return and one of its
\* price fetches has failed, the request has closed no trade and opened no
\* trade (so trades, balance and trade_context are as it found them).
NoMarketData ==
    \A w \in Workers :
        (loc[w].pc = "ret" /\ (Falsy(loc[w].mprice) \/ Falsy(loc[w].price))) =>
            (loc[w].nclosed = 0 /\ loc[w].nopened = 0)

\* C14 - Close is all-or-nothing under persistence failure: when a request
\* has ended with the exception of a failed write, the ledger still agrees
\* with the trades: the balance is START_BALANCE plus the pnl of the CLOSED
\* trades and there is one sample per CLOSED trade.
CloseAllOrNothing ==
    \A w \in Workers :
        (loc[w].pc = "idle" /\ loc[w].result.status = "500") =>
            /\ \A b \in get_balance(balance) : b = START_BALANCE * Scale + SumPnl
            /\ Len(balance) = 1 + Cardinality(Closed)

\* C15 - Opposing-signal exit: when a request that managed the open trades
\* at an available price is about to return, no OPEN trade of the symbol has
\* the action opposite to the request's signal.
OpposingSignalExit ==
    \A w \in Workers :
        (loc[w].pc = "ret" /\ ~Falsy(loc[w].mprice)) =>
            \A i \in DOMAIN trades :
                (trades[i].symbol = SYMBOL /\ trades[i].status = "OPEN") =>
                    trades[i].action = loc[w].action

\* C16 - Scenario D: a buy entered at 100 (TP distance 20) that is managed
\* at price 120 is closed in part only: the step that manages it leaves the
\* trade OPEN.
ManagedAt(w, i, price) ==
    /\ loc[w].pc \in {"m_loop", "c_update"}
    /\ loc[w].rows # <<>>
    /\ Head(loc[w].rows).id = i
    /\ loc[w].price = price

ScenarioD ==
    [][\A w \in Workers, i \in DOMAIN trades :
          (/\ trades[i].action = "buy" /\ trades[i].entry_price = 100
           /\ trades[i].status = "OPEN" /\ ManagedAt(w, i, 120))
              => trades'[i].status = "OPEN"]_vars

\* C17 - Every rejection carries a reason: the result of a request that
\* opened no trade differs from the plain "ok" of a request that opened
\* trades: it has a reason, a status other than "ok", or names a locking
\* engine status.
HasReason(result) ==
    \/ "reason" \in DOMAIN result
    \/ result.status # "ok"
    \/ result.engine \in {"PAUSED", "DAILY_LOCK", "DD_LOCK", "LOCKED"}

RejectionHasReason ==
    [][\A w \in Workers :
          (loc[w].pc = "ret" /\ loc'[w].pc = "idle" /\ loc[w].nopened = 0)
              => HasReason(loc'[w].result)]_vars

\* C18 - Full-exit rule, independent of engine status: when
\* manage_open_trades has run with price p, no trade of the symbol is still
\* OPEN with move >= tpDistance or move <= -slDistance; a step changes a
\* trade only by closing an OPEN trade that meets the rule, with
\* exit_price = p and pnl = move * lot * POINT_VALUE; every other trade is
\* left as it is.  The engine status does not enter.
Move(t, p) == (p - t.entry_price) * (IF t.action = "buy" THEN 1 ELSE -1)

ExitDue(t, p) ==
    \/ Move(t, p) >= BASE_TP * strategy_state[t.strategy].tp_mult
    \/ Move(t, p) <= -(BASE_SL * strategy_state[t.strategy].sl_mult)

AllDueClosed ==
    \A w \in Workers :
        (loc[w].pc = "o_price" /\ ~Falsy(loc[w].mprice)) =>
            \A i \in DOMAIN trades :
                (trades[i].symbol = SYMBOL /\ trades[i].status = "OPEN") =>
                    ~ExitDue(trades[i], loc[w].mprice)

ClosedByRule(i) ==
    \E w \in Workers :
        /\ trades[i].status = "OPEN"
        /\ ExitDue(trades[i], loc[w].mprice)
        /\ trades'[i] = [trades[i] EXCEPT
                            !.status = "CLOSED",
                            !.exit_price = loc[w].mprice,
                            !.pnl = Move(trades[i], loc[w].mprice) * trades[i].lot * POINT_VALUE,
                            !.time_close = now']

OnlyDueChange ==
    /\ Len(trades') >= Len(trades)
    /\ \A i \in DOMAIN trades : trades'[i] = trades[i] \/ ClosedByRule(i)

FullExitRule ==
    /\ AllDueClosed
    /\ [][AllDueClosed' /\ OnlyDueChange]_vars

\* C18 witness: under engine_status LOCKED manage_open_trades has just
\* closed the six open trades at its price.
FullExitWitness ==
    /\ engine_state.engine_status = "LOCKED"
    /\ loc[1].pc = "o_price"
    /\ loc[1].nclosed = Len(STRATEGIES)
    /\ \A i \in DOMAIN trades :
          trades[i].status = "CLOSED" /\ trades[i].exit_price = loc[1].mprice

\* C19 - Single price snapshot per cycle: once a request has fetched the
\* price for opening, that price is the price its manage_open_trades used,
\* and every trade it inserts has that price as entry_price.
SamePrice ==
    \A w \in Workers :
        loc[w].pc \in {"o_guard", "o_insert", "ret"} => loc[w].price = loc[w].mprice

EntryIsManagedPrice ==
    \A w \in Workers :
        (loc[w].pc = "o_insert" /\ Len(trades') > Len(trades)) =>
            trades'[Len(trades')].entry_price = loc[w].mprice

SinglePriceSnapshot ==
    /\ SamePrice
    /\ [][SamePrice' /\ EntryIsManagedPrice]_vars

\* C20 - Strategy weight bounds (bot.py): every weight in weights.json lies
\* in [0.3, 2.0], and one call of update_weights changes a weight by 0.1 at
\* most, up to the rounding of one float addition (2^-53).
WeightsInRange ==
    \A s \in DOMAIN weights_file :
        /\ ~Less(weights_file[s], Float(3))
        /\ ~Less(Float(20), weights_file[s])

\* |new - old| <= 0.1 + slack / (10 * 2^56), in exact arithmetic
ChangeWithin(old, new, slack) ==
    LET up == ~Less(new, old)
        dk == IF up THEN new.k - old.k ELSE old.k - new.k
        de == IF up THEN new.e - old.e ELSE old.e - new.e
    IN  dk = 0 \/ (dk = 1 /\ de <= Float(1).e + slack)

HalfUlp == (10 * Ulp(10, 0)) \div 2

WeightStepRounded ==
    \A s \in DOMAIN weights_file : ChangeWithin(weights_file[s], weights_file'[s], HalfUlp)

StrategyWeightBounds ==
    /\ WeightsInRange
    /\ [][WeightsInRange' /\ WeightStepRounded /\ DOMAIN weights_file' = DOMAIN weights_file]_vars

\* C20 witness: SMC has lost its way down to 0.3 and stayed there while
\* JAPAN was raised twice, to 1.2000000000000002.
StrategyWeightWitness ==
    /\ weights_file["SMC"] = Float(3)
    /\ weights_file["JAPAN"] = [k |-> 12, e |-> 128]

\* C20 as stated: every weight lies in [0.3, 2.0] and one call of
\* update_weights changes a weight by 0.1 at most.
WeightStepSmall ==
    \A s \in DOMAIN weights_file : ChangeWithin(weights_file[s], weights_file'[s], 0)

StrategyWeightBoundsExact ==
    /\ WeightsInRange
    /\ [][WeightsInRange' /\ WeightStepSmall /\ DOMAIN weights_file' = DOMAIN weights_file]_vars

====
